---- MODULE Spec2Model ----
(***************************************************************************)
(* Model of the conversation store and the generation flows of App.tsx.   *)
(*                                                                         *)
(* React state is modelled by its value after the queued functional       *)
(* updaters have run: every setConversations call of App.tsx passes an    *)
(* updater (prev => ...), and React applies updaters in the order they    *)
(* were queued, so applying each one at the place it is queued gives the  *)
(* same sequence of store values.  A handler is cut at its await points:  *)
(* the synchronous part up to the first await is one action, and each     *)
(* resumption (a fragment, a progress callback, a resolution, a           *)
(* rejection) is one action.                                               *)
(*                                                                         *)
(* Text is a sequence of tokens: the empty string is <<>>, a literal of   *)
(* the source is a one-token sequence, and += is Append.                   *)
(***************************************************************************)
EXTENDS Integers, Sequences, FiniteSets, TLC

VARIABLES
    conversations,          \* App.tsx:24  useState<Conversation[]>([])
    activeConversationId,   \* App.tsx:25  useState<string | null>(null)
    isLoading,              \* App.tsx:26  useState(false)
    flows,                  \* the invocations of the generation handlers, in call order
    clicks,                 \* sidebar actions taken so far
    preferences,            \* App.tsx:28  useState<UserPreferences>({userName: '', customInstruction: ''})
    storage,                \* window.localStorage, the keys App reads and writes
    app,                    \* the React tree: mounting | running | crashed
    chatWindow,             \* ChatWindow.tsx:79-81  input, mode, attachedImage, and its I/O
    isGoogleSignedIn,       \* App.tsx:33  useState(false)
    notifications,          \* App.tsx:34  useState<Notification[]>([])
    timers,                 \* the setTimeout callbacks of addNotification not yet run, oldest first
    now,                    \* Date.now(), in milliseconds since App was loaded
    calls,                  \* the Drive and sign-in calls awaited by a handler of App
    google,                 \* googleDriveService.ts:11-13 and its polling timers
    speech,                 \* ChatWindow.tsx:86-88, SettingsModal.tsx:469-471, and the browser's report
    searchQuery             \* SettingsModal.tsx:140  useState('') of Sidebar

\* The notification sink, the Drive integration, the voice input and the
\* search box: no generation handler, sidebar handler or effect on the list
\* touches them.
periphery == <<isGoogleSignedIn, notifications, timers, now, calls, google, speech,
               searchQuery>>

vars == <<conversations, activeConversationId, isLoading, flows, clicks,
          preferences, storage, app, chatWindow, periphery>>

(***************************************************************************)
(* Bounds of the model.                                                    *)
(***************************************************************************)
MaxFlows == 2       \* handler invocations in one run of Spec
MaxSubmits == 3     \* submissions in one run of SpecUI
MaxFrags == 2       \* fragments one gateway sequence yields
MaxClicks == 2      \* sidebar actions (new chat, select, delete, pin) in one run
MaxFailures == 1    \* gateway calls (generation or title) that reject in one run
MaxInput == 2       \* characters in the chat window's text area
MaxReads == 2       \* FileReader reads of the chat window pending at once
MaxCalls == 2       \* invocations of the Drive, sign-in and export handlers in one run
MaxTicks == 1       \* single milliseconds the clock advances by within one delay
MaxPeriods == 2     \* whole notification delays the clock advances by
MaxSpeechErrors == 2 \* errors speech recognition reports in one run
MaxInits == 3       \* calls of initGoogleClient in one run
MaxListed == 4      \* conversations of the list the sidebar is checked with

(***************************************************************************)
(* Values.                                                                 *)
(***************************************************************************)
NoId == "null"          \* null
NoUrl == "none"         \* undefined imageUrl / videoUrl

StreamModes == {"chat", "chatWithImage", "code", "script", "mindmap"}
Modes == StreamModes \cup {"image", "video"}

\* generateId(): crypto.randomUUID(), a fresh id at every call.  The n-th
\* handler invocation draws its ids from the n-th block.
generateId(n, what) == what \o ToString(n)

\* The i-th fragment the gateway yields to the n-th invocation.
Chunk(n, i) == "fragment " \o ToString(n) \o "." \o ToString(i)

\* An id no conversation has.
AbsentId == generateId(0, "conv")

\* The prompt the handlers of Spec and SpecUI are called with.  What the chat
\* window can pass is modelled in SpecChatWindow.
Prompt == <<"prompt">>

\* ChatWindow: type Mode, the handler prop each mode calls, and the state of
\* a freshly mounted window.
WindowModes == {"chat", "image", "code", "script", "mindmap", "video"}
NoImage == "null"
Image == "image"
NoCall == [handler |-> "none", prompt |-> <<>>, image |-> NoImage]
MountedWindow ==
    [input |-> <<>>, mode |-> "chat", attachedImage |-> NoImage, reading |-> 0, call |-> NoCall]

\* googleDriveService.ts when the module has been evaluated: the api.js
\* script is loading, gapiInited is false, gisLoaded() has run if and only if
\* window.google.accounts was present (gisPresent), gapi.client holds no
\* token, no access token is requested, and no initGoogleClient call is
\* polling.
GoogleAtImport(gisPresent) ==
    [gapiInited |-> FALSE, gisInited |-> gisPresent, tokenClient |-> gisPresent,
     token |-> FALSE, requested |-> FALSE, script |-> "loading", polling |-> <<>>]

\* Voice input.  App shows ChatWindow when a conversation is active and
\* PromptTemplates otherwise; speech.mounted is the state of the one shown,
\* which starts with isListening and isSpeechPermissionDenied false, and
\* speech.notAllowed tells whether the browser has reported 'not-allowed'.
MountedSpeech == [isListening |-> FALSE, isSpeechPermissionDenied |-> FALSE]

\* App.tsx:33-34 and the two components when App is first rendered.
PeripheryAtLoad ==
    /\ isGoogleSignedIn = FALSE
    /\ notifications = <<>>
    /\ timers = <<>>
    /\ now = 0
    /\ calls = <<>>
    /\ google = GoogleAtImport(TRUE)
    /\ speech = [mounted |-> MountedSpeech, notAllowed |-> FALSE]
    /\ searchQuery = <<>>

Message(id, role, content) ==
    [id |-> id, role |-> role, content |-> content, imageUrl |-> NoUrl,
     videoUrl |-> NoUrl, isError |-> FALSE, isMindMap |-> FALSE]

ConvIds(convs) == {convs[i].id : i \in DOMAIN convs}

\* conversations.find(c => c.id === activeConversationId)
activeConversation ==
    IF \E i \in DOMAIN conversations : conversations[i].id = activeConversationId
    THEN CHOOSE i \in DOMAIN conversations : conversations[i].id = activeConversationId
    ELSE 0

\* { ...m, ...update }
Spread(m, update) ==
    [k \in DOMAIN m |-> IF k \in DOMAIN update THEN update[k] ELSE m[k]]

(***************************************************************************)
(* The conversation store: the updaters passed to setConversations.        *)
(***************************************************************************)

\* A deletion that empties the conversation and keeps it in the list.
ClearConv(convs, id) ==
    [i \in DOMAIN convs |->
        IF convs[i].id = id THEN [convs[i] EXCEPT !.messages = <<>>] ELSE convs[i]]

\* prev.filter(c => c.id !== id)
RECURSIVE RemoveConv(_, _)
RemoveConv(convs, id) ==
    IF convs = <<>> THEN <<>>
    ELSE IF Head(convs).id = id THEN RemoveConv(Tail(convs), id)
    ELSE <<Head(convs)>> \o RemoveConv(Tail(convs), id)

\* An updater that pins instead of toggling.
SetPinned(convs, id) ==
    [i \in DOMAIN convs |->
        IF convs[i].id = id THEN [convs[i] EXCEPT !.isPinned = TRUE] ELSE convs[i]]

\* prev.map(c => c.id === id ? { ...c, isPinned: !c.isPinned } : c)
TogglePin(convs, id) ==
    [i \in DOMAIN convs |->
        IF convs[i].id = id
        THEN [convs[i] EXCEPT !.isPinned = ~convs[i].isPinned]
        ELSE convs[i]]

\* AppendMessage without the test of the conversation's id.
AppendToEvery(convs, convId, message) ==
    [i \in DOMAIN convs |-> [convs[i] EXCEPT !.messages = Append(convs[i].messages, message)]]

\* AppendMessage that puts the message first.
PrependMessage(convs, convId, message) ==
    [i \in DOMAIN convs |->
        IF convs[i].id = convId
        THEN [convs[i] EXCEPT !.messages = <<message>> \o convs[i].messages]
        ELSE convs[i]]

\* prev.map(c => c.id === convId ? { ...c, messages: [...c.messages, message] } : c)
AppendMessage(convs, convId, message) ==
    [i \in DOMAIN convs |->
        IF convs[i].id = convId
        THEN [convs[i] EXCEPT !.messages = Append(convs[i].messages, message)]
        ELSE convs[i]]

\* setConversations(prev => [newConversation, ...prev])
PrependConv(convs, conv) == <<conv>> \o convs

\* A title update that creates the conversation it does not find.
SetTitleOrCreate(convs, convId, title) ==
    IF convId \in ConvIds(convs)
    THEN [i \in DOMAIN convs |->
            IF convs[i].id = convId THEN [convs[i] EXCEPT !.title = title] ELSE convs[i]]
    ELSE <<[id |-> convId, title |-> title, messages |-> <<>>, isPinned |-> FALSE]>> \o convs

\* prev.map(c => (c.id === convId ? { ...c, title } : c))
SetTitle(convs, convId, title) ==
    [i \in DOMAIN convs |->
        IF convs[i].id = convId THEN [convs[i] EXCEPT !.title = title] ELSE convs[i]]

\* updateLastMessage that writes to the conversation's last message, whatever
\* its id.
updateTrailingMessage(convs, convId, messageId, update) ==
    [i \in DOMAIN convs |->
        IF convs[i].id = convId
        THEN LET last == Len(convs[i].messages)
             IN  [convs[i] EXCEPT !.messages[last] = Spread(convs[i].messages[last], update)]
        ELSE convs[i]]

\* updateLastMessage: the message is addressed by (convId, messageId).
updateLastMessage(convs, convId, messageId, update) ==
    [i \in DOMAIN convs |->
        IF convs[i].id = convId
        THEN [convs[i] EXCEPT !.messages =
                [j \in DOMAIN convs[i].messages |->
                    IF convs[i].messages[j].id = messageId
                    THEN Spread(convs[i].messages[j], update)
                    ELSE convs[i].messages[j]]]
        ELSE convs[i]]

\* ApplyChunk that writes the conversation back as the handler captured it
\* when it was created (unpinned), with the chunk appended.
ApplyChunkToSnapshot(convs, convId, messageId, chunk) ==
    [i \in DOMAIN convs |->
        IF convs[i].id = convId
        THEN LET msgs == convs[i].messages
                 last == Len(msgs)
             IN  IF msgs[last].id = messageId
                 THEN [convs[i] EXCEPT !.isPinned = FALSE,
                                       !.messages[last].content = Append(msgs[last].content, chunk)]
                 ELSE convs[i]
        ELSE convs[i]]

\* ApplyChunk that addresses the placeholder by its id, wherever it is.
ApplyChunkById(convs, convId, messageId, chunk) ==
    [i \in DOMAIN convs |->
        IF convs[i].id = convId
        THEN [convs[i] EXCEPT !.messages =
                [j \in DOMAIN convs[i].messages |->
                    IF convs[i].messages[j].id = messageId
                    THEN [convs[i].messages[j] EXCEPT !.content = Append(@, chunk)]
                    ELSE convs[i].messages[j]]]
        ELSE convs[i]]

\* ApplyChunk without the test of the last message's id.
ApplyChunkToLast(convs, convId, messageId, chunk) ==
    [i \in DOMAIN convs |->
        IF convs[i].id = convId
        THEN LET last == Len(convs[i].messages)
             IN  [convs[i] EXCEPT !.messages[last].content =
                                        Append(convs[i].messages[last].content, chunk)]
        ELSE convs[i]]

\* The updater of the "for await (const chunk of stream)" loops: the chunk is
\* appended to the LAST message of the conversation when that message is the
\* flow's placeholder, and otherwise to nothing.
ApplyChunk(convs, convId, messageId, chunk) ==
    [i \in DOMAIN convs |->
        IF convs[i].id = convId
        THEN LET msgs == convs[i].messages
                 last == Len(msgs)
             IN  IF msgs[last].id = messageId
                 THEN [convs[i] EXCEPT !.messages[last].content = Append(msgs[last].content, chunk)]
                 ELSE convs[i]
        ELSE convs[i]]

(***************************************************************************)
(* localStorage.  A stored value is absent (getItem returns null), a text  *)
(* that JSON.parse rejects, a text that is the JSON of a value of the      *)
(* expected type, or a text that is the JSON of a value of another type    *)
(* (null, a number, an object where an array is expected).                 *)
(***************************************************************************)
Keys == {"conversations", "userPreferences"}

Absent(key) == [kind |-> "absent", value |-> IF key = "conversations" THEN <<>> ELSE "default"]
Unparsable(key) == [Absent(key) EXCEPT !.kind = "unparsable"]
JsonOther(key) == [Absent(key) EXCEPT !.kind = "jsonOther"]

\* JSON.stringify.  A property whose value is undefined is left out of the
\* text, and reading a property an object does not have gives undefined:
\* NoUrl stands for both, so the value parsed back is the value written.
Stringify(value) == [kind |-> "json", value |-> value]

\* The preferences: the default object of useState, two objects a user saved,
\* and what a stored text of another type parses to.
DefaultPreferences == "default"
SavedPreferences == {"saved 1", "saved 2"}
OtherValue == "other"

\* PersistConversations without the removeItem branch.
PersistNonEmpty(store, convs) ==
    IF Len(convs) > 0 THEN [store EXCEPT !["conversations"] = Stringify(convs)] ELSE store

\* useEffect(..., [conversations]): the list is written whenever it changed.
PersistConversations(store, convs) ==
    [store EXCEPT !["conversations"] =
        IF Len(convs) > 0 THEN Stringify(convs) ELSE Absent("conversations")]

(***************************************************************************)
(* What differs between the six handlers.                                  *)
(***************************************************************************)

Min(a, b) == IF a < b THEN a ELSE b

\* String.prototype.substring(from, to) on a token sequence.
substring(str, from, to) == SubSeq(str, from + 1, Min(to, Len(str)))

TitlePrefixLen == 20    \* prompt.substring(0, 20)

\* The title a handler gives the conversation it creates.
ProvisionalTitle(mode, prompt) ==
    CASE mode \in {"chat", "chatWithImage"} -> <<"New Chat">>
      [] mode = "image"   -> <<"Image: ">> \o substring(prompt, 0, TitlePrefixLen) \o <<"...">>
      [] mode = "video"   -> <<"Video: ">> \o substring(prompt, 0, TitlePrefixLen) \o <<"...">>
      [] mode = "code"    -> <<"Code Assistant">>
      [] mode = "script"  -> <<"Video Script">>
      [] mode = "mindmap" -> <<"Mind Map">>

\* The title the .then callback of generateConversationTitle stores.
ResolvedTitle(mode, title) ==
    CASE mode \in {"chat", "chatWithImage"} -> title
      [] mode = "code"    -> <<"Code: ">> \o title
      [] mode = "script"  -> <<"Script: ">> \o title
      [] mode = "mindmap" -> <<"Map: ">> \o title
      [] OTHER            -> title

\* What generateConversationTitle resolves to.
GatewayTitle == <<"gateway title">>

\* modelMessage.content at creation.
PlaceholderContent(mode) ==
    CASE mode = "image" -> <<"Generating image...">>
      [] mode = "video" -> <<"Preparing to generate video...">>
      [] OTHER          -> <<>>

\* The statuses generateVideo passes to onProgress, in the order of its code
\* (each without the emoji it starts with).
VideoStatuses ==
    << "Initializing video generation...",
       "Processing your video... This can take a few minutes.",
       "The AI is working its magic...",
       "Polishing the pixels... Almost there!",
       "Finalizing video...",
       "Downloading video file..." >>

\* The status that can follow status number s: the two statuses of the polling
\* loop (pollCount === 3, pollCount === 9) are skipped when the operation is
\* done earlier.
NextStages(s) ==
    CASE s = 1 -> {2}
      [] s = 2 -> {3, 5}
      [] s = 3 -> {4, 5}
      [] s = 4 -> {5}
      [] s = 5 -> {6}
      [] OTHER -> {}

\* What a gateway operation can throw: an Error, or a value that is no Error.
\* generateImage and generateVideo catch everything and rethrow an Error.
Rejections(mode) == IF mode \in StreamModes THEN {"Error", "other"} ELSE {"Error"}

\* error instanceof Error ? error.message : "Sorry, ..."
ErrorMessage(mode, rejection) ==
    IF rejection = "Error" THEN <<"error.message">>
    ELSE CASE mode = "image" -> <<"Sorry, could not generate image. Please try again.">>
           [] mode = "video" -> <<"Sorry, could not generate video. Please try again.">>
           [] OTHER          -> <<"Sorry, an error occurred. Please try again.">>

\* The catch block without the content.
ErrorFlagOnly(mode, rejection) == [isError |-> TRUE]

\* The update of the catch block.
ErrorUpdate(mode, rejection) ==
    IF mode = "mindmap"
    THEN [content |-> ErrorMessage(mode, rejection), isError |-> TRUE, isMindMap |-> FALSE]
    ELSE [content |-> ErrorMessage(mode, rejection), isError |-> TRUE]

\* The update after generateImage resolved, without the content.
ImageUrlOnly(imageUrl) == [imageUrl |-> imageUrl]

\* The update after generateImage resolved.
ImageUpdate(imageUrl) == [content |-> <<>>, imageUrl |-> imageUrl]

\* The update after generateVideo resolved.
VideoUpdate(videoUrl) == [content |-> <<"Your video is ready!">>, videoUrl |-> videoUrl]

\* The update of the onProgress callback.
ProgressUpdate(status) == [content |-> <<status>>]

(***************************************************************************)
(* The synchronous part of a handler, from its first statement to the      *)
(* first await, as the list of its statements in program order.            *)
(***************************************************************************)

\* The gateway operation a handler calls.
GatewayOp(mode) ==
    CASE mode = "chat"          -> "sendMessageStream"
      [] mode = "chatWithImage" -> "generateResponseWithImageStream"
      [] mode = "code"          -> "analyzeCodeStream"
      [] mode = "script"        -> "generateVideoScriptStream"
      [] mode = "mindmap"       -> "generateMindMapStream"
      [] mode = "image"         -> "generateImage"
      [] mode = "video"         -> "generateVideo"

\* The gateway operations that have a history parameter.
HistoryOps ==
    {"sendMessageStream", "generateResponseWithImageStream", "analyzeCodeStream",
     "generateVideoScriptStream"}

\* A filter that keeps every message.
Unfiltered(msgs) == msgs

\* .filter(m => !m.isError)
NotError(msgs) ==
    LET keep(m) == ~m.isError IN SelectSeq(msgs, keep)

\* historyForAPI as the handler passes it.  handleSend filters
\* [...currentHistory, userMessage] and, without an image, takes userMessage
\* out again (it is the newMessage argument); handleCodeQuery and
\* handleGenerateScript filter currentHistory.
HistoryForAPI(mode, currentHistory, userMessage) ==
    LET notUser(m) == m # userMessage
    IN  CASE mode = "chat" ->
                SelectSeq(NotError(currentHistory \o <<userMessage>>), notUser)
          [] mode = "chatWithImage" -> NotError(currentHistory \o <<userMessage>>)
          [] mode \in {"code", "script"} -> NotError(currentHistory)
          [] OTHER -> <<>>

\* Of each message passed, its id and its isError.
Sent(msgs) == [i \in DOMAIN msgs |-> [id |-> msgs[i].id, isError |-> msgs[i].isError]]

\* The gateway called before the placeholder is appended.
GatewayBeforePlaceholder(mode) ==
    IF mode \in StreamModes
    THEN <<"resolve", "setIsLoading", "title", "gateway", "placeholder">>
    ELSE <<"resolve", "setIsLoading", "gateway", "placeholder">>

\* The placeholder appended before the user message.
PlaceholderBeforeUser(mode) ==
    IF mode \in StreamModes
    THEN <<"placeholder", "resolve", "setIsLoading", "title", "gateway">>
    ELSE <<"placeholder", "resolve", "setIsLoading", "gateway">>

\* handleSend, handleCodeQuery, handleGenerateScript and handleGenerateMindMap
\* request a title between setIsLoading(true) and the placeholder;
\* handleGenerateImage and handleGenerateVideo assign isNewConversation and
\* never read it.
HandlerStatements(mode) ==
    IF mode \in StreamModes
    THEN <<"resolve", "setIsLoading", "title", "placeholder", "gateway">>
    ELSE <<"resolve", "setIsLoading", "placeholder", "gateway">>

MessageIds(convs, convId) ==
    IF \E i \in DOMAIN convs : convs[i].id = convId
    THEN LET i == CHOOSE i \in DOMAIN convs : convs[i].id = convId
         IN  [j \in DOMAIN convs[i].messages |-> convs[i].messages[j].id]
    ELSE <<>>

\* The last two elements of a sequence.
LastTwo(seq) == SubSeq(seq, IF Len(seq) > 2 THEN Len(seq) - 1 ELSE 1, Len(seq))

\* One statement of the n-th invocation.  st is what the statements before it
\* left: the store, the active id, the flag, whether a title was requested
\* and, once the gateway was called, the ids the target conversation ended
\* with at that moment.  activeConversation is the one of the render the
\* handler was created in.
Statement(stmt, st, n, mode, prompt) ==
    LET isNewConversation == activeConversation = 0
        convId == IF isNewConversation THEN generateId(n, "conv")
                  ELSE conversations[activeConversation].id
        userMessage ==
            [Message(generateId(n, "user"), "user", prompt)
                EXCEPT !.imageUrl = IF mode = "chatWithImage" THEN "data:image" ELSE NoUrl]
        modelMessage ==
            [Message(generateId(n, "model"), "model", PlaceholderContent(mode))
                EXCEPT !.isMindMap = (mode = "mindmap")]
        newConversation ==
            [id |-> convId, title |-> ProvisionalTitle(mode, prompt),
             messages |-> <<userMessage>>, isPinned |-> FALSE]
        currentHistory == IF isNewConversation THEN <<>>
                          ELSE conversations[activeConversation].messages
    IN  CASE stmt = "resolve" ->
                IF isNewConversation
                THEN [st EXCEPT !.convs = PrependConv(st.convs, newConversation),
                                !.active = convId]
                ELSE [st EXCEPT !.convs = AppendMessage(st.convs, convId, userMessage)]
          [] stmt = "setIsLoading" -> [st EXCEPT !.loading = TRUE]
          [] stmt = "title" -> [st EXCEPT !.title = isNewConversation]
          [] stmt = "placeholder" ->
                [st EXCEPT !.convs = AppendMessage(st.convs, convId, modelMessage)]
          [] stmt = "gateway" ->
                \* generateVideo calls onProgress once before its first await
                [st EXCEPT !.atCall = LastTwo(MessageIds(st.convs, convId)),
                           !.call = [op |-> GatewayOp(mode),
                                     history |-> Sent(HistoryForAPI(mode, currentHistory,
                                                                    userMessage))],
                           !.convs = IF mode = "video"
                                     THEN updateLastMessage(st.convs, convId, modelMessage.id,
                                                            ProgressUpdate(VideoStatuses[1]))
                                     ELSE st.convs]

RECURSIVE Run(_, _, _, _, _)
Run(stmts, st, n, mode, prompt) ==
    IF stmts = <<>> THEN st
    ELSE Run(Tail(stmts), Statement(Head(stmts), st, n, mode, prompt), n, mode, prompt)

(***************************************************************************)
(* Init.                                                                   *)
(***************************************************************************)
Init ==
    /\ conversations = <<>>
    /\ activeConversationId = NoId
    /\ isLoading = FALSE
    /\ flows = <<>>
    /\ clicks = 0
    /\ preferences = DefaultPreferences
    /\ storage = [key \in Keys |-> Absent(key)]
    /\ app = "running"
    /\ chatWindow = MountedWindow
    /\ PeripheryAtLoad

(***************************************************************************)
(* The handlers.                                                           *)
(***************************************************************************)

\* The render that follows a handler or a resumption: the effect on
\* [conversations] persists the list; nothing else of App changes.
AfterRender ==
    /\ storage' = PersistConversations(storage, conversations')
    /\ UNCHANGED <<preferences, app, chatWindow, periphery>>

\* handleSend (chat, chatWithImage), handleGenerateImage, handleGenerateVideo,
\* handleCodeQuery, handleGenerateScript, handleGenerateMindMap up to the
\* first await.
Dispatch(mode, prompt) ==
    LET n == Len(flows) + 1
        st0 == [convs |-> conversations, active |-> activeConversationId,
                loading |-> isLoading, title |-> FALSE, atCall |-> <<>>,
                call |-> [op |-> "none", history |-> <<>>]]
        st == Run(HandlerStatements(mode), st0, n, mode, prompt)
    IN  /\ conversations' = st.convs
        /\ activeConversationId' = st.active
        /\ isLoading' = st.loading
        /\ clicks' = clicks
        /\ flows' = Append(flows,
              [mode |-> mode,
               convId |-> IF activeConversation = 0 THEN generateId(n, "conv")
                          ELSE conversations[activeConversation].id,
               messageId |-> generateId(n, "model"),
               userId |-> generateId(n, "user"),
               isNew |-> activeConversation = 0,
               pc |-> "run",                 \* run | done | failed
               fragments |-> 0,              \* fragments the gateway yielded so far
               stage |-> IF mode = "video" THEN 1 ELSE 0,
               rejection |-> "none",
               title |-> IF st.title THEN "pending" ELSE "none",
               atCall |-> st.atCall,         \* what the conversation ended with at the gateway call
               call |-> st.call,             \* the gateway operation called and the history passed
               finalized |-> 0])
        /\ AfterRender

\* ChatWindow.handleSubmit: the window is rendered for the active conversation
\* and submits in the selected mode unless isLoading.
ChatWindowSubmit(mode) ==
    /\ activeConversation # 0
    /\ ~isLoading
    /\ Len(flows) < MaxSubmits
    /\ Dispatch(mode, Prompt)

\* PromptTemplates (handleSubmit and the template buttons): rendered when no
\* conversation is active; calls onSendMessage = handleSend without an image.
TemplatesSubmit ==
    /\ activeConversation = 0
    /\ Len(flows) < MaxSubmits
    /\ Dispatch("chat", Prompt)

Running(n) == n \in DOMAIN flows /\ flows[n].pc = "run"

\* Rejections so far.
Failures ==
    Cardinality({n \in DOMAIN flows : flows[n].pc = "failed"})
    + Cardinality({n \in DOMAIN flows : flows[n].title = "rejected"})

\* A handler that ends without the finally block.
NoFinally(n, pc, rejection) ==
    /\ isLoading' = isLoading
    /\ flows' = [flows EXCEPT ![n].pc = pc, ![n].rejection = rejection, ![n].stage = 0]

\* finally { setIsLoading(false) }
Finally(n, pc, rejection) ==
    /\ isLoading' = FALSE
    /\ flows' = [flows EXCEPT ![n].pc = pc, ![n].rejection = rejection, ![n].stage = 0,
                              ![n].finalized = flows[n].finalized + 1]

\* for await: the stream yields its next fragment.
StreamChunk(n) ==
    /\ Running(n)
    /\ flows[n].mode \in StreamModes
    /\ flows[n].fragments < MaxFrags
    /\ conversations' = ApplyChunk(conversations, flows[n].convId, flows[n].messageId,
                                   Chunk(n, flows[n].fragments + 1))
    /\ flows' = [flows EXCEPT ![n].fragments = flows[n].fragments + 1]
    /\ UNCHANGED <<activeConversationId, isLoading, clicks>>
    /\ AfterRender

\* for await: the stream is exhausted.
StreamEnd(n) ==
    /\ Running(n)
    /\ flows[n].mode \in StreamModes
    /\ Finally(n, "done", "none")
    /\ UNCHANGED <<conversations, activeConversationId, clicks>>
    /\ AfterRender

\* The gateway call rejects or the stream throws: catch, then finally.
GatewayFail(n, rejection) ==
    /\ Running(n)
    /\ rejection \in Rejections(flows[n].mode)
    /\ Failures < MaxFailures
    /\ conversations' = updateLastMessage(conversations, flows[n].convId, flows[n].messageId,
                                          ErrorUpdate(flows[n].mode, rejection))
    /\ Finally(n, "failed", rejection)
    /\ UNCHANGED <<activeConversationId, clicks>>
    /\ AfterRender

\* await generateImage(prompt) resolves.
ImageResolve(n) ==
    /\ Running(n)
    /\ flows[n].mode = "image"
    /\ conversations' = updateLastMessage(conversations, flows[n].convId, flows[n].messageId,
                                          ImageUpdate("data:image/png"))
    /\ Finally(n, "done", "none")
    /\ UNCHANGED <<activeConversationId, clicks>>
    /\ AfterRender

\* generateVideo calls onProgress.
VideoProgress(n, s) ==
    /\ Running(n)
    /\ flows[n].mode = "video"
    /\ s \in NextStages(flows[n].stage)
    /\ conversations' = updateLastMessage(conversations, flows[n].convId, flows[n].messageId,
                                          ProgressUpdate(VideoStatuses[s]))
    /\ flows' = [flows EXCEPT ![n].stage = s]
    /\ UNCHANGED <<activeConversationId, isLoading, clicks>>
    /\ AfterRender

\* await generateVideo(...) resolves, after its last status.
VideoResolve(n) ==
    /\ Running(n)
    /\ flows[n].mode = "video"
    /\ flows[n].stage = Len(VideoStatuses)
    /\ conversations' = updateLastMessage(conversations, flows[n].convId, flows[n].messageId,
                                          VideoUpdate("blob:video"))
    /\ Finally(n, "done", "none")
    /\ UNCHANGED <<activeConversationId, clicks>>
    /\ AfterRender

\* generateConversationTitle(...).then(title => setConversations(...))
TitleResolve(n) ==
    /\ n \in DOMAIN flows
    /\ flows[n].title = "pending"
    /\ conversations' = SetTitle(conversations, flows[n].convId,
                                 ResolvedTitle(flows[n].mode, GatewayTitle))
    /\ flows' = [flows EXCEPT ![n].title = "resolved"]
    /\ UNCHANGED <<activeConversationId, isLoading, clicks>>
    /\ AfterRender

\* generateConversationTitle rejects: the promise has no rejection handler.
TitleReject(n) ==
    /\ n \in DOMAIN flows
    /\ flows[n].title = "pending"
    /\ Failures < MaxFailures
    /\ flows' = [flows EXCEPT ![n].title = "rejected"]
    /\ UNCHANGED <<conversations, activeConversationId, isLoading, clicks>>
    /\ AfterRender

\* One more sidebar action.
Click == clicks < MaxClicks /\ clicks' = clicks + 1

handleNewConversation ==
    /\ activeConversationId' = NoId
    /\ UNCHANGED <<conversations, isLoading, flows>>
    /\ Click
    /\ AfterRender

\* The sidebar lists the conversations of the store.
handleSelectConversation(id) ==
    /\ id \in ConvIds(conversations)
    /\ activeConversationId' = id
    /\ UNCHANGED <<conversations, isLoading, flows>>
    /\ Click
    /\ AfterRender

\* A deletion that clears the active id whichever conversation is deleted.
DeleteClearsActive(id, confirmed) ==
    /\ id \in ConvIds(conversations)
    /\ IF confirmed
       THEN /\ conversations' = RemoveConv(conversations, id)
            /\ activeConversationId' = NoId
       ELSE UNCHANGED <<conversations, activeConversationId>>
    /\ UNCHANGED <<isLoading, flows>>
    /\ clicks < MaxClicks /\ clicks' = clicks + 1
    /\ AfterRender

\* A deletion that leaves the active id as it is.
DeleteKeepsActive(id, confirmed) ==
    /\ id \in ConvIds(conversations)
    /\ IF confirmed
       THEN /\ conversations' = RemoveConv(conversations, id)
            /\ UNCHANGED activeConversationId
       ELSE UNCHANGED <<conversations, activeConversationId>>
    /\ UNCHANGED <<isLoading, flows>>
    /\ clicks < MaxClicks /\ clicks' = clicks + 1
    /\ AfterRender

\* confirmed is the answer of window.confirm.
handleDeleteConversation(id, confirmed) ==
    /\ id \in ConvIds(conversations)
    /\ IF confirmed
       THEN /\ conversations' = RemoveConv(conversations, id)
            /\ activeConversationId' = IF activeConversationId = id THEN NoId
                                       ELSE activeConversationId
       ELSE UNCHANGED <<conversations, activeConversationId>>
    /\ UNCHANGED <<isLoading, flows>>
    /\ Click
    /\ AfterRender

handleTogglePin(id) ==
    /\ id \in ConvIds(conversations)
    /\ conversations' = TogglePin(conversations, id)
    /\ UNCHANGED <<activeConversationId, isLoading, flows>>
    /\ Click
    /\ AfterRender

\* What the gateway and the sidebar can do, whoever submits.
Environment ==
    \/ \E n \in DOMAIN flows : StreamChunk(n)
    \/ \E n \in DOMAIN flows : StreamEnd(n)
    \/ \E n \in DOMAIN flows : \E r \in {"Error", "other"} : GatewayFail(n, r)
    \/ \E n \in DOMAIN flows : ImageResolve(n)
    \/ \E n \in DOMAIN flows : \E s \in DOMAIN VideoStatuses : VideoProgress(n, s)
    \/ \E n \in DOMAIN flows : VideoResolve(n)
    \/ \E n \in DOMAIN flows : TitleResolve(n)
    \/ \E n \in DOMAIN flows : TitleReject(n)
    \/ handleNewConversation
    \/ \E id \in ConvIds(conversations) : handleSelectConversation(id)
    \/ \E id \in ConvIds(conversations) : \E confirmed \in BOOLEAN :
            handleDeleteConversation(id, confirmed)
    \/ \E id \in ConvIds(conversations) : handleTogglePin(id)

\* The handlers of App as the operations of the store: any of them can be
\* called in any state, also while other flows are in flight.
Next ==
    \/ \E mode \in Modes : Len(flows) < MaxFlows /\ Dispatch(mode, Prompt)
    \/ Environment

Spec == Init /\ [][Next]_vars

\* The handlers as the two screens of App call them.
NextUI ==
    \/ \E mode \in Modes : ChatWindowSubmit(mode)
    \/ TemplatesSubmit
    \/ Environment

SpecUI == Init /\ [][NextUI]_vars

(***************************************************************************)
(* Startup: the mount effects of App, read against what localStorage       *)
(* holds, and the render that follows them.                                *)
(***************************************************************************)

\* A conversation as an earlier session left it in the store.
StoredConversation(n) ==
    [id |-> generateId(n, "conv"), title |-> GatewayTitle,
     messages |-> << Message(generateId(n, "user"), "user", Prompt),
                     Message(generateId(n, "model"), "model", <<Chunk(n, 1)>>) >>,
     isPinned |-> FALSE]

\* What the 'conversations' key can hold when App mounts.
StoredLists ==
    { Absent("conversations"), Unparsable("conversations"), JsonOther("conversations"),
      Stringify(<<>>), Stringify(<<StoredConversation(1)>>),
      Stringify(<<StoredConversation(2), StoredConversation(1)>>) }

\* What the 'userPreferences' key can hold when App mounts.
StoredPreferences ==
    { Absent("userPreferences"), Unparsable("userPreferences"), JsonOther("userPreferences") }
    \cup { Stringify(p) : p \in SavedPreferences }

InitStorage ==
    /\ conversations = <<>>
    /\ activeConversationId = NoId
    /\ isLoading = FALSE
    /\ flows = <<>>
    /\ clicks = 0
    /\ preferences = DefaultPreferences
    /\ storage \in { [conversations |-> c, userPreferences |-> p] :
                        c \in StoredLists, p \in StoredPreferences }
    /\ app = "mounting"
    /\ chatWindow = MountedWindow
    /\ PeripheryAtLoad

\* The three mount effects in the order App declares them, each one run
\* with the state of the first render, and then the render with the state
\* they set.
Startup ==
    /\ app = "mounting"
    /\ LET c == storage["conversations"]
           p == storage["userPreferences"]
           \* the conversations effect: getItem, JSON.parse, catch -> removeItem
           store1 == IF c.kind = "unparsable"
                     THEN [storage EXCEPT !["conversations"] = Absent("conversations")]
                     ELSE storage
           \* the persist effect, with the empty list of the first render
           store2 == PersistConversations(store1, conversations)
           \* the preferences effect
           store3 == IF p.kind = "unparsable"
                     THEN [store2 EXCEPT !["userPreferences"] = Absent("userPreferences")]
                     ELSE store2
           \* the next render evaluates conversations.find(...): a value that is
           \* no array has no find, the render throws and React unmounts the tree
           throws == c.kind = "jsonOther"
       IN  /\ app' = IF throws THEN "crashed" ELSE "running"
           /\ conversations' = IF c.kind = "json" THEN c.value ELSE conversations
           /\ preferences' = CASE p.kind = "json"      -> p.value
                                [] p.kind = "jsonOther" -> OtherValue
                                [] OTHER                -> preferences
           /\ storage' = IF throws THEN store3
                         ELSE PersistConversations(store3, conversations')
    /\ UNCHANGED <<activeConversationId, isLoading, flows, clicks, chatWindow, periphery>>

\* handleSavePreferences
handleSavePreferences(newPreferences) ==
    /\ app = "running"
    /\ preferences' = newPreferences
    /\ storage' = [storage EXCEPT !["userPreferences"] = Stringify(newPreferences)]
    /\ UNCHANGED <<conversations, activeConversationId, isLoading, flows, clicks, app,
                   chatWindow, periphery>>

\* The page is loaded again: the state of App is gone, localStorage is kept.
Reload ==
    /\ app # "mounting"
    /\ app' = "mounting"
    /\ conversations' = <<>>
    /\ preferences' = DefaultPreferences
    /\ UNCHANGED <<activeConversationId, isLoading, flows, clicks, storage, chatWindow,
                   periphery>>

\* Startup, the handlers that change what is stored without a gateway call,
\* and the next startup.
NextStorage ==
    \/ Startup
    \/ \E p \in SavedPreferences \cup {DefaultPreferences} : handleSavePreferences(p)
    \/ \E id \in ConvIds(conversations) : handleTogglePin(id)
    \/ \E id \in ConvIds(conversations) : \E confirmed \in BOOLEAN :
            handleDeleteConversation(id, confirmed)
    \/ Reload

SpecStorage == InitStorage /\ [][NextStorage]_vars

(***************************************************************************)
(* The chat window alone, with App as its environment: App passes the      *)
(* isLoading flag down, and the handler props are what the window calls.   *)
(***************************************************************************)

\* The characters of the text area: white space and anything else.
Chars == {" ", "a"}

RECURSIVE Texts(_)
Texts(len) ==
    IF len = 0 THEN {<<>>}
    ELSE Texts(len - 1) \cup { Append(t, c) : t \in {u \in Texts(len - 1) : Len(u) = len - 1},
                                               c \in Chars }

\* String.prototype.trim
RECURSIVE trimStart(_)
trimStart(str) == IF str # <<>> /\ Head(str) = " " THEN trimStart(Tail(str)) ELSE str

RECURSIVE trimEnd(_)
trimEnd(str) ==
    IF str # <<>> /\ str[Len(str)] = " " THEN trimEnd(SubSeq(str, 1, Len(str) - 1)) ELSE str

trim(str) == trimEnd(trimStart(str))

\* The handler prop handleSubmit calls in each mode.
HandlerProp(mode) ==
    CASE mode = "chat"    -> "onSend"
      [] mode = "image"   -> "onGenerateImage"
      [] mode = "code"    -> "onCodeQuery"
      [] mode = "script"  -> "onGenerateScript"
      [] mode = "mindmap" -> "onGenerateMindMap"
      [] mode = "video"   -> "onGenerateVideo"

\* const isSubmitDisabled = isLoading || (!input.trim() && (mode !== 'chat' || !attachedImage))
isSubmitDisabled ==
    isLoading \/ (trim(chatWindow.input) = <<>>
                    /\ (chatWindow.mode # "chat" \/ chatWindow.attachedImage = NoImage))

\* App and its storage, which the chat window does not touch.
WindowFrame == UNCHANGED <<conversations, activeConversationId, flows, clicks,
                           preferences, storage, app, periphery>>

\* onChange of the text area, which is disabled while isLoading.
onChange(value) ==
    /\ ~isLoading
    /\ chatWindow' = [chatWindow EXCEPT !.input = value]
    /\ UNCHANGED isLoading
    /\ WindowFrame

\* onClick of a mode button: setMode(mode); setAttachedImage(null).  A read
\* that is pending goes on.
selectMode(mode) ==
    /\ chatWindow' = [chatWindow EXCEPT !.mode = mode, !.attachedImage = NoImage]
    /\ UNCHANGED isLoading
    /\ WindowFrame

\* handleImageUpload: the attach button is rendered in chat mode only; an
\* image file starts a FileReader read, any other file is ignored.
handleImageUpload(isImageFile) ==
    /\ chatWindow.mode = "chat"
    /\ chatWindow.reading < MaxReads
    /\ chatWindow' = IF isImageFile
                      THEN [chatWindow EXCEPT !.reading = chatWindow.reading + 1]
                      ELSE chatWindow
    /\ UNCHANGED isLoading
    /\ WindowFrame

\* reader.onload: setAttachedImage({...}), in whatever mode the window is by
\* then.
onload ==
    /\ chatWindow.reading > 0
    /\ chatWindow' = [chatWindow EXCEPT !.reading = chatWindow.reading - 1,
                                        !.attachedImage = Image]
    /\ UNCHANGED isLoading
    /\ WindowFrame

\* The remove button of the preview, rendered when an image is attached in
\* chat mode.
removeImage ==
    /\ chatWindow.attachedImage # NoImage
    /\ chatWindow.mode = "chat"
    /\ chatWindow' = [chatWindow EXCEPT !.attachedImage = NoImage]
    /\ UNCHANGED isLoading
    /\ WindowFrame

\* handleSubmit.  The handler of App that is called sets isLoading before
\* its first await.
handleSubmit ==
    /\ IF (trim(chatWindow.input) # <<>> \/ chatWindow.attachedImage # NoImage) /\ ~isLoading
       THEN /\ chatWindow' =
                  [chatWindow EXCEPT
                      !.call = [handler |-> HandlerProp(chatWindow.mode),
                                prompt  |-> trim(chatWindow.input),
                                image   |-> IF chatWindow.mode = "chat"
                                            THEN chatWindow.attachedImage ELSE NoImage],
                      !.input = <<>>,
                      !.attachedImage = NoImage]
            /\ isLoading' = TRUE
       ELSE UNCHANGED <<chatWindow, isLoading>>
    /\ WindowFrame

\* The submit button: <button type="submit" disabled={isSubmitDisabled}>.
submitButton ==
    /\ ~isSubmitDisabled
    /\ handleSubmit

\* handleKeyDown: Enter with the Ctrl or Meta key in the text area, which is
\* disabled while isLoading.
handleKeyDown ==
    /\ ~isLoading
    /\ handleSubmit

\* The finally block of the handler that was called: setIsLoading(false).
LoadingCleared ==
    /\ isLoading
    /\ isLoading' = FALSE
    /\ UNCHANGED chatWindow
    /\ WindowFrame

\* key={activeConversation.id}: another conversation becomes active and the
\* window is mounted anew; the reads of the old window set no state of the
\* new one.
Remount ==
    /\ chatWindow' = [MountedWindow EXCEPT !.call = chatWindow.call]
    /\ UNCHANGED isLoading
    /\ WindowFrame

NextChatWindow ==
    \/ \E value \in Texts(MaxInput) : onChange(value)
    \/ \E mode \in WindowModes : selectMode(mode)
    \/ \E isImageFile \in BOOLEAN : handleImageUpload(isImageFile)
    \/ onload
    \/ removeImage
    \/ submitButton
    \/ handleKeyDown
    \/ LoadingCleared
    \/ Remount

SpecChatWindow == Init /\ [][NextChatWindow]_vars

(***************************************************************************)
(* The notification sink and the handlers of App that talk to Google Drive *)
(* or export a conversation.  calls holds their invocations in call order: *)
(* pc is "awaiting" while the handler waits for the service, and           *)
(* "returned", "resolved" or "rejected" afterwards.                        *)
(***************************************************************************)
NotificationDelay == 5000   \* setTimeout(..., 5000)

\* addNotification at clock value t: the id is Date.now(); the timer removes
\* every notification with that id.
addNotification(sink, t, message, type) ==
    [notifications |-> Append(sink.notifications, [id |-> t, message |-> message, type |-> type]),
     timers        |-> Append(sink.timers, [id |-> t, due |-> t + NotificationDelay])]

Sink == [notifications |-> notifications, timers |-> timers]

SetSink(sink) ==
    /\ notifications' = sink.notifications
    /\ timers' = sink.timers

\* setNotifications(prev => prev.filter(n => n.id !== id))
RemoveNotification(list, id) ==
    LET Keep(n) == n.id # id IN SelectSeq(list, Keep)

\* What these handlers leave alone, apart from the list and the active id.
IntegrationFrame == UNCHANGED <<isLoading, flows, clicks, preferences, storage, app,
                                chatWindow, google, speech, searchQuery>>

Invoke(op, pc, title) ==
    /\ Len(calls) < MaxCalls
    /\ calls' = Append(calls, [op |-> op, pc |-> pc, title |-> title])

\* conversations.find(c => c.id === conversationId).title
TitleOf(convs, id) ==
    LET i == CHOOSE k \in DOMAIN convs : convs[k].id = id IN convs[i].title

\* The text of each notification.
Quoted(title) == <<"\"">> \o title \o <<"\"">>
Started(op, title) ==
    CASE op = "upload"    -> <<"Uploading ">> \o Quoted(title) \o <<"...">>
      [] op = "uploadAll" -> <<"Uploading all conversations...">>
      [] op = "createDoc" -> <<"Creating Google Doc for ">> \o Quoted(title) \o <<"...">>
      [] op = "exportTxt" -> <<"Exporting ">> \o Quoted(title) \o <<" as TXT...">>
      [] op = "exportPdf" -> <<"Exporting ">> \o Quoted(title) \o <<" as PDF...">>
Succeeded(op, title) ==
    CASE op = "signIn"    -> <<"Successfully signed in with Google.">>
      [] op = "upload"    -> Quoted(title) \o <<" uploaded successfully.">>
      [] op = "uploadAll" -> <<"All conversations uploaded successfully.">>
      [] op = "createDoc" -> <<"Successfully created document. Opening...">>
FailedText(op) ==
    CASE op = "signIn"    -> <<"Google Sign-In failed.">>
      [] op = "upload"    -> <<"Failed to upload conversation.">>
      [] op = "uploadAll" -> <<"Failed to upload all conversations.">>
      [] op = "createDoc" -> <<"Failed to create Google Doc.">>
      [] op \in {"exportTxt", "exportPdf"} -> <<"Failed to export: ", "errorMessage">>

\* handleGoogleSignIn up to await signInToGoogle().
handleGoogleSignIn ==
    /\ Invoke("signIn", "awaiting", <<>>)
    /\ UNCHANGED <<conversations, activeConversationId, isGoogleSignedIn, notifications,
                   timers, now>>
    /\ IntegrationFrame

\* handleGoogleSignOut; the sidebar shows its button when isGoogleSignedIn.
handleGoogleSignOut ==
    /\ isGoogleSignedIn
    /\ Invoke("signOut", "returned", <<>>)
    /\ isGoogleSignedIn' = FALSE
    /\ SetSink(addNotification(Sink, now, <<"Successfully signed out.">>, "info"))
    /\ UNCHANGED <<conversations, activeConversationId, now>>
    /\ IntegrationFrame

\* handleUploadConversation and handleCreateDoc up to their await.
DriveHandler(op, conversationId) ==
    /\ op \in {"upload", "createDoc"}
    /\ IF ~isGoogleSignedIn
       THEN /\ Invoke(op, "returned", <<>>)
            /\ SetSink(addNotification(Sink, now, <<"Please sign in with Google first.">>, "error"))
       ELSE IF conversationId \notin ConvIds(conversations)
            THEN /\ Invoke(op, "returned", <<>>)
                 /\ UNCHANGED <<notifications, timers>>
            ELSE LET title == TitleOf(conversations, conversationId)
                 IN  /\ Invoke(op, "awaiting", title)
                     /\ SetSink(addNotification(Sink, now, Started(op, title), "info"))
    /\ UNCHANGED <<conversations, activeConversationId, isGoogleSignedIn, now>>
    /\ IntegrationFrame

handleUploadConversation(conversationId) == DriveHandler("upload", conversationId)

handleCreateDoc(conversationId) == DriveHandler("createDoc", conversationId)

\* handleUploadAllConversations up to await uploadToDrive(...).
handleUploadAllConversations ==
    /\ IF ~isGoogleSignedIn
       THEN /\ Invoke("uploadAll", "returned", <<>>)
            /\ SetSink(addNotification(Sink, now, <<"Please sign in with Google first.">>, "error"))
       ELSE IF Len(conversations) = 0
            THEN /\ Invoke("uploadAll", "returned", <<>>)
                 /\ SetSink(addNotification(Sink, now, <<"No conversations to upload.">>, "info"))
            ELSE /\ Invoke("uploadAll", "awaiting", <<>>)
                 /\ SetSink(addNotification(Sink, now, Started("uploadAll", <<>>), "info"))
    /\ UNCHANGED <<conversations, activeConversationId, isGoogleSignedIn, now>>
    /\ IntegrationFrame

\* The awaited call of the k-th invocation resolves: the rest of the try
\* block.
CallResolves(k) ==
    /\ k \in DOMAIN calls
    /\ calls[k].pc = "awaiting"
    /\ calls' = [calls EXCEPT ![k].pc = "resolved"]
    /\ isGoogleSignedIn' = IF calls[k].op = "signIn" THEN TRUE ELSE isGoogleSignedIn
    /\ SetSink(addNotification(Sink, now, Succeeded(calls[k].op, calls[k].title), "success"))
    /\ UNCHANGED <<conversations, activeConversationId, now>>
    /\ IntegrationFrame

\* A rejection that is written into the active conversation's title.
CallRejectsIntoStore(k) ==
    /\ k \in DOMAIN calls
    /\ calls[k].pc = "awaiting"
    /\ calls' = [calls EXCEPT ![k].pc = "rejected"]
    /\ conversations' = SetTitle(conversations, activeConversationId, FailedText(calls[k].op))
    /\ SetSink(addNotification(Sink, now, FailedText(calls[k].op), "error"))
    /\ UNCHANGED <<activeConversationId, isGoogleSignedIn, now>>
    /\ IntegrationFrame

\* The awaited call of the k-th invocation rejects: the catch block.
CallRejects(k) ==
    /\ k \in DOMAIN calls
    /\ calls[k].pc = "awaiting"
    /\ calls' = [calls EXCEPT ![k].pc = "rejected"]
    /\ SetSink(addNotification(Sink, now, FailedText(calls[k].op), "error"))
    /\ UNCHANGED <<conversations, activeConversationId, isGoogleSignedIn, now>>
    /\ IntegrationFrame

\* handleExportConversation.  The export runs synchronously; when it throws,
\* the second notification is added elapsed milliseconds after the first.
handleExportConversation(conversationId, format, throws, elapsed) ==
    LET op == IF format = "txt" THEN "exportTxt" ELSE "exportPdf"
    IN  /\ IF conversationId \notin ConvIds(conversations)
           THEN /\ Invoke(op, "returned", <<>>)
                /\ SetSink(addNotification(Sink, now,
                                           <<"Could not find conversation to export.">>, "error"))
                /\ UNCHANGED now
           ELSE LET title == TitleOf(conversations, conversationId)
                    first == addNotification(Sink, now, Started(op, title), "info")
                IN  IF throws
                    THEN /\ Invoke(op, "rejected", title)
                         /\ now' = now + elapsed
                         /\ SetSink(addNotification(first, now', FailedText(op), "error"))
                    ELSE /\ Invoke(op, "returned", title)
                         /\ SetSink(first)
                         /\ UNCHANGED now
        /\ UNCHANGED <<conversations, activeConversationId, isGoogleSignedIn>>
        /\ IntegrationFrame

\* The callback of the oldest timer runs; a timer never runs before it is
\* due.
TimerFires ==
    /\ timers # <<>>
    /\ now >= Head(timers).due
    /\ notifications' = RemoveNotification(notifications, Head(timers).id)
    /\ timers' = Tail(timers)
    /\ UNCHANGED <<conversations, activeConversationId, isGoogleSignedIn, now, calls>>
    /\ IntegrationFrame

\* Time passes: a millisecond, or a whole notification delay.
Tick(elapsed) ==
    /\ \/ elapsed = 1 /\ now % NotificationDelay < MaxTicks
       \/ elapsed = NotificationDelay /\ now \div NotificationDelay < MaxPeriods
    /\ now' = now + elapsed
    /\ UNCHANGED <<conversations, activeConversationId, isGoogleSignedIn, notifications,
                   timers, calls>>
    /\ IntegrationFrame

\* App after startup, with a list loaded from storage and the sign-in status
\* the callback of initGoogleClient reported.
InitIntegrations ==
    /\ conversations \in { <<>>, <<StoredConversation(1)>>,
                           <<StoredConversation(2), StoredConversation(1)>> }
    /\ activeConversationId \in {NoId} \cup ConvIds(conversations)
    /\ isLoading = FALSE
    /\ flows = <<>>
    /\ clicks = 0
    /\ preferences = DefaultPreferences
    /\ storage = PersistConversations([key \in Keys |-> Absent(key)], conversations)
    /\ app = "running"
    /\ chatWindow = MountedWindow
    /\ isGoogleSignedIn \in BOOLEAN
    /\ notifications = <<>>
    /\ timers = <<>>
    /\ now = 0
    /\ calls = <<>>
    /\ google = GoogleAtImport(TRUE)
    /\ speech = [mounted |-> MountedSpeech, notAllowed |-> FALSE]
    /\ searchQuery = <<>>

\* An invocation of one of the handlers, or the end of an awaited call.
IntegrationStep ==
    \/ handleGoogleSignIn
    \/ handleGoogleSignOut
    \/ \E id \in ConvIds(conversations) \cup {AbsentId} : handleUploadConversation(id)
    \/ \E id \in ConvIds(conversations) \cup {AbsentId} : handleCreateDoc(id)
    \/ handleUploadAllConversations
    \/ \E k \in DOMAIN calls : CallResolves(k)
    \/ \E k \in DOMAIN calls : CallRejects(k)
    \/ \E id \in ConvIds(conversations) \cup {AbsentId} : \E format \in {"txt", "pdf"} :
            \E throws \in BOOLEAN : \E elapsed \in {0, 1} :
                handleExportConversation(id, format, throws, elapsed)

\* The handlers while the sidebar deletes conversations; the clock stands
\* still.
NextIntegrations ==
    \/ IntegrationStep
    \/ \E id \in ConvIds(conversations) : \E confirmed \in BOOLEAN :
            handleDeleteConversation(id, confirmed)

SpecIntegrations == InitIntegrations /\ [][NextIntegrations]_vars

\* The handlers as the callers of addNotification, with the clock and the
\* timers.
NextNotifications ==
    \/ IntegrationStep
    \/ TimerFires
    \/ \E elapsed \in {1, NotificationDelay} : Tick(elapsed)

SpecNotifications == InitIntegrations /\ [][NextNotifications]_vars

(***************************************************************************)
(* Voice input: the microphone button of the component App shows.          *)
(***************************************************************************)
SpeechFrame == UNCHANGED <<conversations, isLoading, flows, clicks, preferences, storage, app,
                           chatWindow, isGoogleSignedIn, now, calls, google, searchQuery>>

\* handleToggleListening of ChatWindow and of PromptTemplates.
handleToggleListening ==
    /\ ~speech.mounted.isSpeechPermissionDenied
    /\ IF speech.mounted.isListening
       THEN UNCHANGED speech                                    \* recognition.stop()
       ELSE speech' = [speech EXCEPT !.mounted.isListening = TRUE]  \* recognition.start()
    /\ UNCHANGED <<activeConversationId, notifications, timers>>
    /\ SpeechFrame

\* recognition.onend
onend ==
    /\ speech.mounted.isListening
    /\ speech' = [speech EXCEPT !.mounted.isListening = FALSE]
    /\ UNCHANGED <<activeConversationId, notifications, timers>>
    /\ SpeechFrame

SpeechErrorText(error) ==
    IF error = "not-allowed"
    THEN <<"Microphone access was denied. Please allow microphone permission in your browser settings to use voice input.">>
    ELSE <<"An error occurred during speech recognition: ", error>>

\* recognition.onerror, after recognition.start().
onerror(error) ==
    /\ speech.mounted.isListening
    /\ Len(notifications) < MaxSpeechErrors
    /\ SetSink(addNotification(Sink, now, SpeechErrorText(error), "error"))
    /\ speech' = IF error = "not-allowed"
                 THEN [mounted |-> [isListening |-> FALSE, isSpeechPermissionDenied |-> TRUE],
                       notAllowed |-> TRUE]
                 ELSE [speech EXCEPT !.mounted.isListening = FALSE]
    /\ UNCHANGED activeConversationId
    /\ SpeechFrame

\* The active id changes (a conversation is selected, New Chat is clicked,
\* the active conversation is deleted, or a prompt is sent from the new-chat
\* screen): App mounts PromptTemplates, or ChatWindow with the key of the
\* conversation, and the component shown before is unmounted.
ActiveChanges(id) ==
    /\ id # activeConversationId
    /\ activeConversationId' = id
    /\ speech' = [speech EXCEPT !.mounted = MountedSpeech]
    /\ UNCHANGED <<notifications, timers>>
    /\ SpeechFrame

NextSpeech ==
    \/ handleToggleListening
    \/ onend
    \/ \E error \in {"not-allowed", "network"} : onerror(error)
    \/ \E id \in ConvIds(conversations) \cup {NoId} : ActiveChanges(id)

SpecSpeech == InitIntegrations /\ [][NextSpeech]_vars

(***************************************************************************)
(* The sidebar: sortedAndFilteredConversations.  A text is a sequence of   *)
(* tokens, here single letters and spaces.                                 *)
(***************************************************************************)

\* String.prototype.toLowerCase
LowerCase(token) ==
    CASE token = "A" -> "a"
      [] token = "B" -> "b"
      [] OTHER       -> token
toLowerCase(str) == [i \in DOMAIN str |-> LowerCase(str[i])]

\* String.prototype.includes
includes(str, searchString) ==
    \E i \in 0..(Len(str) - Len(searchString)) :
        SubSeq(str, i + 1, i + Len(searchString)) = searchString

\* The callback of .filter
Matches(conv, query) ==
    IF trim(query) = <<>> THEN TRUE
    ELSE LET q == toLowerCase(query)
         IN  \/ includes(toLowerCase(conv.title), q)
             \/ \E j \in DOMAIN conv.messages :
                    /\ conv.messages[j].content # <<>>
                    /\ includes(toLowerCase(conv.messages[j].content), q)

\* A comparator that puts the unpinned conversations first.
compareUnpinnedFirst(a, b) ==
    IF a.isPinned /\ ~b.isPinned THEN 1
    ELSE IF ~a.isPinned /\ b.isPinned THEN -1
    ELSE 0

\* The comparator of .sort
compare(a, b) ==
    IF a.isPinned /\ ~b.isPinned THEN -1
    ELSE IF ~a.isPinned /\ b.isPinned THEN 1
    ELSE 0

\* Array.prototype.sort with that comparator: a stable sort (ECMAScript
\* 2019), computed by insertion.  x goes before the first element it is
\* less than.
RECURSIVE Insert(_, _)
Insert(sorted, x) ==
    IF sorted = <<>> THEN <<x>>
    ELSE IF compare(x, Head(sorted)) < 0 THEN <<x>> \o sorted
    ELSE <<Head(sorted)>> \o Insert(Tail(sorted), x)

RECURSIVE sort(_)
sort(list) ==
    IF list = <<>> THEN <<>>
    ELSE Insert(sort(SubSeq(list, 1, Len(list) - 1)), list[Len(list)])

sortedAndFilteredConversations ==
    LET Test(conv) == Matches(conv, searchQuery)
    IN  sort(SelectSeq(conversations, Test))

\* The lists the sidebar is checked with: conversations with titles of
\* both cases, pinned or not, newest first.
ListedConversation(n, title, isPinned) ==
    [id |-> generateId(n, "conv"), title |-> title,
     messages |-> << Message(generateId(n, "user"), "user", <<"b", " ", "a">>),
                     Message(generateId(n, "model"), "model", <<>>) >>,
     isPinned |-> isPinned]

ListedTitles == { <<"A", "b">>, <<"c">> }

RECURSIVE Lists(_)
Lists(len) ==
    IF len = 0 THEN {<<>>}
    ELSE Lists(len - 1) \cup
         { <<ListedConversation(len, t, p)>> \o l :
              t \in ListedTitles, p \in BOOLEAN, l \in {k \in Lists(len - 1) : Len(k) = len - 1} }

Queries == { <<>>, <<" ">>, <<"a">>, <<"A", "B">>, <<"c">>, <<" ", "a">> }

InitSidebar ==
    /\ conversations \in Lists(MaxListed)
    /\ activeConversationId = NoId
    /\ isLoading = FALSE
    /\ flows = <<>>
    /\ clicks = 0
    /\ preferences = DefaultPreferences
    /\ storage = PersistConversations([key \in Keys |-> Absent(key)], conversations)
    /\ app = "running"
    /\ chatWindow = MountedWindow
    /\ PeripheryAtLoad

\* onChange of the search box: setSearchQuery(e.target.value)
setSearchQuery(value) ==
    /\ searchQuery' = value
    /\ UNCHANGED <<conversations, activeConversationId, isLoading, flows, clicks, preferences,
                   storage, app, chatWindow, isGoogleSignedIn, notifications, timers, now,
                   calls, google, speech>>

NextSidebar ==
    \/ \E value \in Queries : setSearchQuery(value)
    \/ \E id \in ConvIds(conversations) : handleTogglePin(id)
    \/ \E id \in ConvIds(conversations) : \E confirmed \in BOOLEAN :
            handleDeleteConversation(id, confirmed)

SpecSidebar == InitSidebar /\ [][NextSidebar]_vars

(***************************************************************************)
(* googleDriveService.ts: the two Google libraries and initGoogleClient.   *)
(* google.script is the stage of api.js: "loading" until the script        *)
(* element's load event, "failed" if the browser could not load it,        *)
(* "loadingClient" while gapi.load('client', ...) fetches the client,      *)
(* "clientFailed" if that fetch failed, "initializing" while               *)
(* gapi.client.init is awaited, "rejected" if it rejected, "inited" once   *)
(* gapiInited is set.  google.polling holds one record per call of         *)
(* initGoogleClient: whether its interval is still set, and how many times *)
(* it has invoked updateSigninStatus.                                      *)
(***************************************************************************)
GoogleFrame ==
    UNCHANGED <<conversations, activeConversationId, isLoading, flows, clicks, preferences,
                storage, app, chatWindow, notifications, timers, now, calls, speech,
                searchQuery>>

\* gapiScript.onload = gapiLoaded: gapi.load('client', initializeGapiClient)
gapiLoaded ==
    /\ google.script = "loading"
    /\ google' = [google EXCEPT !.script = "loadingClient"]
    /\ UNCHANGED isGoogleSignedIn
    /\ GoogleFrame

\* The browser cannot load api.js: the script element has no onerror, and
\* gapiLoaded never runs.
gapiScriptError ==
    /\ google.script = "loading"
    /\ google' = [google EXCEPT !.script = "failed"]
    /\ UNCHANGED isGoogleSignedIn
    /\ GoogleFrame

\* gapi.load('client', initializeGapiClient): the client is fetched (ok) and
\* initializeGapiClient starts, up to its await; or the fetch fails and the
\* callback, a function, is never called.
clientLoaded(ok) ==
    /\ google.script = "loadingClient"
    /\ google' = [google EXCEPT !.script = IF ok THEN "initializing" ELSE "clientFailed"]
    /\ UNCHANGED isGoogleSignedIn
    /\ GoogleFrame

\* initializeGapiClient after its await: gapi.client.init(...) is fulfilled
\* (ok) and gapiInited is set, or is rejected and the assignment is not
\* reached.
initializeGapiClient(ok) ==
    /\ google.script = "initializing"
    /\ google' = IF ok THEN [google EXCEPT !.script = "inited", !.gapiInited = TRUE]
                 ELSE [google EXCEPT !.script = "rejected"]
    /\ UNCHANGED isGoogleSignedIn
    /\ GoogleFrame

\* signInToGoogle: with a token client and gapi.client in place, sets
\* tokenClient.callback and calls requestAccessToken; one request at a time.
signInToGoogle ==
    /\ google.tokenClient
    /\ google.script \in {"initializing", "rejected", "inited"}
    /\ ~google.requested
    /\ google' = [google EXCEPT !.requested = TRUE]
    /\ UNCHANGED isGoogleSignedIn
    /\ GoogleFrame

\* The answer to requestAccessToken: a granted token becomes gapi.client's
\* token, a refusal leaves it as it was.
tokenResponse(granted) ==
    /\ google.requested
    /\ google' = [google EXCEPT !.requested = FALSE, !.token = granted \/ @]
    /\ UNCHANGED isGoogleSignedIn
    /\ GoogleFrame

\* signOutFromGoogle: revoke, then gapi.client.setToken('')
signOutFromGoogle ==
    /\ google.script \in {"initializing", "rejected", "inited"}
    /\ google.token
    /\ google' = [google EXCEPT !.token = FALSE]
    /\ UNCHANGED isGoogleSignedIn
    /\ GoogleFrame

\* initGoogleClient(updateSigninStatus): setInterval(..., 100)
initGoogleClient ==
    /\ Len(google.polling) < MaxInits
    /\ google' = [google EXCEPT !.polling = Append(@, [set |-> TRUE, invoked |-> 0])]
    /\ UNCHANGED isGoogleSignedIn
    /\ GoogleFrame

\* The interval of the k-th initGoogleClient call fires: when both flags are
\* set, clearInterval(checkInit) and updateSigninStatus(!!gapi.client.getToken()),
\* which is App's setIsGoogleSignedIn; otherwise nothing.
checkInit(k) ==
    /\ k \in DOMAIN google.polling
    /\ google.polling[k].set
    /\ IF google.gapiInited /\ google.gisInited
       THEN /\ google' = [google EXCEPT !.polling[k] = [set |-> FALSE, invoked |-> @.invoked + 1]]
            /\ isGoogleSignedIn' = google.token
       ELSE UNCHANGED <<google, isGoogleSignedIn>>
    /\ GoogleFrame

\* App is mounted and googleDriveService.ts has been evaluated, with the
\* GIS script "already loaded from index.html" (googleDriveService.ts:53).
InitGoogle ==
    /\ conversations = <<>>
    /\ activeConversationId = NoId
    /\ isLoading = FALSE
    /\ flows = <<>>
    /\ clicks = 0
    /\ preferences = DefaultPreferences
    /\ storage = [key \in Keys |-> Absent(key)]
    /\ app = "running"
    /\ chatWindow = MountedWindow
    /\ isGoogleSignedIn = FALSE
    /\ notifications = <<>>
    /\ timers = <<>>
    /\ now = 0
    /\ calls = <<>>
    /\ google = GoogleAtImport(TRUE)
    /\ speech = [mounted |-> MountedSpeech, notAllowed |-> FALSE]
    /\ searchQuery = <<>>

NextGoogle ==
    \/ gapiLoaded
    \/ gapiScriptError
    \/ \E ok \in BOOLEAN : clientLoaded(ok)
    \/ \E ok \in BOOLEAN : initializeGapiClient(ok)
    \/ signInToGoogle
    \/ \E granted \in BOOLEAN : tokenResponse(granted)
    \/ signOutFromGoogle
    \/ initGoogleClient
    \/ \E k \in 1..MaxInits : checkInit(k)

SpecGoogle == InitGoogle /\ [][NextGoogle]_vars

\* The browser settles the script load and the init promise, and runs the
\* callback of an interval that is set.
SpecGoogleFair ==
    /\ SpecGoogle
    /\ WF_vars(gapiLoaded \/ gapiScriptError)
    /\ WF_vars(\E ok \in BOOLEAN : clientLoaded(ok))
    /\ WF_vars(\E ok \in BOOLEAN : initializeGapiClient(ok))
    /\ \A k \in 1..MaxInits : WF_vars(checkInit(k))

(***************************************************************************)
(* Properties.                                                             *)
(***************************************************************************)

\* A step of the n-th invocation after its synchronous part: a fragment, a
\* progress callback, the end of the stream, a resolution or a rejection.
FlowStep(n) ==
    /\ n \in DOMAIN flows
    /\ \/ flows'[n].fragments # flows[n].fragments
       \/ flows'[n].stage # flows[n].stage
       \/ flows'[n].pc # flows[n].pc

\* Every message of the store but the one with this id, with its place.
OtherMessages(convs, messageId) ==
    UNION { { <<convs[i].id, j, convs[i].messages[j]>> :
                j \in {k \in DOMAIN convs[i].messages : convs[i].messages[k].id # messageId} } :
            i \in DOMAIN convs }

\* The message with this id, as a set (empty when the store has none).
Find(convs, messageId) ==
    UNION { { convs[i].messages[j] :
                j \in {k \in DOMAIN convs[i].messages : convs[i].messages[k].id = messageId} } :
            i \in DOMAIN convs }

\* C1: a fragment, progress, completion or error update of one flow changes
\* no message but that flow's own placeholder, whatever other flows are in
\* flight and whichever conversations they write to.
C1_OnlyOwnPlaceholder ==
    [][\A n \in DOMAIN flows :
          FlowStep(n) => OtherMessages(conversations', flows[n].messageId)
                         = OtherMessages(conversations, flows[n].messageId)]_vars

\* Two flows in the same conversation; the later one has applied a fragment
\* to its placeholder while the earlier one is still in flight.
C1_Witness ==
    \E n \in DOMAIN flows : \E m \in DOMAIN flows :
        /\ n < m
        /\ flows[n].convId = flows[m].convId
        /\ Running(n)
        /\ flows[m].fragments > 0
        /\ \E msg \in Find(conversations, flows[m].messageId) : msg.content # <<>>

\* The concatenation of the fragments the gateway yielded to the n-th invocation.
Emitted(n) == [i \in 1..flows[n].fragments |-> Chunk(n, i)]

Exists(n) == flows[n].convId \in ConvIds(conversations)

\* C2: when the stream of a streaming flow has completed and its conversation
\* is still in the store, the placeholder's content is the concatenation of
\* all the fragments the gateway yielded, whatever else was submitted.
C2_ContentIsConcatenation ==
    \A n \in DOMAIN flows :
        (flows[n].mode \in StreamModes /\ flows[n].pc = "done" /\ Exists(n))
            => \A msg \in Find(conversations, flows[n].messageId) : msg.content = Emitted(n)

\* C3: once a flow has failed, its placeholder (while its conversation is in
\* the store) has isError = TRUE and the error text as its content, not the
\* fragments applied before the failure; in every mode.
C3_FailureReplacesContent ==
    \A n \in DOMAIN flows :
        flows[n].pc = "failed"
            => \A msg \in Find(conversations, flows[n].messageId) :
                  /\ msg.isError
                  /\ msg.content = ErrorMessage(flows[n].mode, flows[n].rejection)
                  /\ msg.content # Emitted(n)

\* A flow failed mid-stream, after a fragment was applied to its placeholder.
C3_Witness ==
    \E n \in DOMAIN flows :
        /\ flows[n].pc = "failed"
        /\ flows[n].fragments > 0
        /\ \E msg \in Find(conversations, flows[n].messageId) : msg.isError

\* C4: a flow calls setIsLoading(false) exactly once, in the step in which its
\* gateway call completes, resolves or rejects, and takes no step after it.
C4_LoadingClearedOnce ==
    [][/\ \A n \in DOMAIN flows' :
             flows'[n].finalized = IF flows'[n].pc = "run" THEN 0 ELSE 1
       /\ \A n \in DOMAIN flows :
             /\ (flows[n].pc = "run" /\ flows'[n].pc # "run") => isLoading' = FALSE
             /\ flows[n].pc # "run" => ~FlowStep(n)]_vars

\* A flow whose gateway rejected before the first fragment has cleared the flag.
C4_Witness ==
    \E n \in DOMAIN flows :
        /\ flows[n].pc = "failed"
        /\ flows[n].fragments = 0
        /\ flows[n].finalized = 1
        /\ ~isLoading

\* C5: when a handler calls the gateway, the target conversation ends with the
\* user message of this submission followed by its placeholder.
C5_UserThenPlaceholderAtCall ==
    \A n \in DOMAIN flows : flows[n].atCall = <<flows[n].userId, flows[n].messageId>>

\* A submission into a conversation that already held an exchange.
C5_Witness ==
    \E n \in DOMAIN flows :
        /\ ~flows[n].isNew
        /\ flows[n].atCall = <<flows[n].userId, flows[n].messageId>>
        /\ Len(MessageIds(conversations, flows[n].convId)) > 2

\* The conversation with this id, as a set (empty when the store has none).
Conv(convs, convId) == {convs[i] : i \in {k \in DOMAIN convs : convs[k].id = convId}}

\* C6: in every mode a submission that creates a conversation issues a title
\* call while the generation runs; the call's resolution replaces the title
\* of the conversation, if it still exists, by the title derived from the
\* gateway's answer, and its rejection leaves the store as it is.
C6_TitleForEveryNewConversation ==
    [][/\ \A n \in DOMAIN flows' \ DOMAIN flows :
             flows'[n].isNew => flows'[n].title = "pending" /\ flows'[n].pc = "run"
       /\ \A n \in DOMAIN flows :
             /\ (flows[n].title = "pending" /\ flows'[n].title = "resolved")
                    => \A c \in Conv(conversations', flows[n].convId) :
                          c.title = ResolvedTitle(flows[n].mode, GatewayTitle)
             /\ (flows[n].title = "pending" /\ flows'[n].title = "rejected")
                    => conversations' = conversations]_vars

\* C7: an update that arrives for a conversation no longer in the store (a
\* fragment, a progress status, a completion, an error, a title) leaves the
\* whole store as it is.
C7_LateUpdatesAreNoOps ==
    [][\A n \in DOMAIN flows :
          (~Exists(n) /\ flows'[n] # flows[n]) => conversations' = conversations]_vars

\* The error update of the first flow arrived after its conversation was
\* deleted.  The one sidebar action was that deletion; it cleared the active
\* id, so the second submission created its conversation after it; and the
\* first flow ended after the second was dispatched, since the flag is down
\* while the second is still in flight.
C7_Witness ==
    /\ Len(flows) = 2
    /\ clicks = 1
    /\ ~Exists(1)
    /\ flows[2].isNew
    /\ Running(2)
    /\ flows[1].pc = "failed"
    /\ ~isLoading

\* C8: a step that removes a conversation sets the active id to null when it
\* was that conversation's id and leaves it otherwise; a declined deletion
\* changes nothing.
C8_DeleteAndActivePointer ==
    [][/\ \A id \in ConvIds(conversations) \ ConvIds(conversations') :
             activeConversationId' = IF activeConversationId = id THEN NoId
                                     ELSE activeConversationId
       /\ \A id \in ConvIds(conversations) :
             handleDeleteConversation(id, FALSE)
                => UNCHANGED <<conversations, activeConversationId, isLoading, flows>>]_vars

\* The first conversation was deleted while the second was active, and the
\* second is still active.
C8_Witness ==
    /\ Len(flows) > 1
    /\ ~Exists(1)
    /\ flows[Len(flows)].isNew
    /\ activeConversationId = flows[Len(flows)].convId
    /\ Exists(Len(flows))
    /\ clicks = MaxClicks

\* C9: a submission with an active conversation creates none and appends its
\* user message and then its placeholder to the active one; a submission
\* without one creates exactly one conversation, first in the store, with the
\* mode's provisional title and exactly these two messages, and makes it the
\* active one.  No other conversation changes.
C9_ResolveTarget ==
    [][Len(flows') = Len(flows) + 1 =>
          LET f == flows'[Len(flows')]
              others == {c \in DOMAIN conversations : conversations[c].id # f.convId}
          IN  /\ \A c \in others : conversations[c] \in Conv(conversations', conversations[c].id)
              /\ activeConversationId' = f.convId
              /\ IF activeConversation # 0
                 THEN /\ f.convId = activeConversationId
                      /\ Len(conversations') = Len(conversations)
                      /\ MessageIds(conversations', f.convId)
                            = MessageIds(conversations, f.convId) \o <<f.userId, f.messageId>>
                 ELSE /\ f.convId \notin ConvIds(conversations)
                      /\ Len(conversations') = Len(conversations) + 1
                      /\ conversations'[1].id = f.convId
                      /\ conversations'[1].title = ProvisionalTitle(f.mode, Prompt)
                      /\ Len(conversations'[1].messages) = 2
                      /\ conversations'[1].messages[1].id = f.userId
                      /\ conversations'[1].messages[1].role = "user"
                      /\ conversations'[1].messages[2].id = f.messageId
                      /\ conversations'[1].messages[2].role = "model"]_vars

\* One submission created a conversation and the next one reused it.
C9_Witness ==
    /\ Len(flows) = 2
    /\ flows[1].isNew
    /\ ~flows[2].isNew
    /\ flows[2].convId = flows[1].convId
    /\ Len(conversations) = 1
    /\ Len(conversations[1].messages) = 4

IsPrefix(s, t) == Len(s) <= Len(t) /\ SubSeq(t, 1, Len(s)) = s

\* C10: in every step, the message ids of a conversation that stays in the
\* store are a prefix of its message ids after the step.
C10_MessagesAppendOnly ==
    [][\A id \in ConvIds(conversations) \cap ConvIds(conversations') :
          IsPrefix(MessageIds(conversations, id), MessageIds(conversations', id))]_vars

\* A conversation that received a second exchange while the first flow was
\* still writing to it.
C10_Witness ==
    \E n \in DOMAIN flows :
        /\ Len(MessageIds(conversations, flows[n].convId)) = 4
        /\ flows[n].isNew
        /\ flows[n].fragments > 0
        /\ Running(n)

\* Every message of the store with isError set, with its place.
Failed(convs) ==
    UNION { { <<convs[i].id, j, convs[i].messages[j]>> :
                j \in {k \in DOMAIN convs[i].messages : convs[i].messages[k].isError} } :
            i \in DOMAIN convs }

\* C11: a message that has isError = TRUE is changed by no later step: in every
\* step, every failed message of a conversation that stays in the store is
\* the same message, at the same place, after the step.
C11_FailedIsTerminal ==
    [][\A f \in Failed(conversations) :
          f[1] \in ConvIds(conversations') => f \in Failed(conversations')]_vars

\* The first flow failed; the second was dispatched into the same conversation
\* after that (the flag is up while only the second is in flight) and has
\* applied a fragment since.
C11_Witness ==
    /\ Len(flows) = 2
    /\ flows[1].pc = "failed"
    /\ flows[2].convId = flows[1].convId
    /\ Running(2)
    /\ isLoading
    /\ flows[2].fragments > 0
    /\ \E msg \in Find(conversations, flows[1].messageId) : msg.isError
    /\ \E msg \in Find(conversations, flows[2].messageId) : msg.content # <<>>

\* C12: the history a flow passes to the gateway holds no message whose
\* isError is TRUE, and the image and video flows call an operation that has
\* no history parameter.
C12_NoErrorInHistory ==
    \A n \in DOMAIN flows :
        /\ \A i \in DOMAIN flows[n].call.history : ~flows[n].call.history[i].isError
        /\ flows[n].mode \in {"chat", "chatWithImage", "code", "script"}
              => flows[n].call.op \in HistoryOps
        /\ flows[n].mode \in {"image", "video"}
              => flows[n].call.op \notin HistoryOps /\ flows[n].call.history = <<>>

\* The second flow was dispatched into the conversation of the first after
\* the first had failed (the flag is up while only the second is in flight):
\* its history holds the first user message and not the failed placeholder.
C12_Witness ==
    /\ Len(flows) = 2
    /\ flows[1].pc = "failed"
    /\ flows[2].convId = flows[1].convId
    /\ Running(2)
    /\ isLoading
    /\ flows[2].call.op \in HistoryOps
    /\ \E i \in DOMAIN flows[2].call.history : flows[2].call.history[i].id = flows[1].userId
    /\ \A i \in DOMAIN flows[2].call.history : flows[2].call.history[i].id # flows[1].messageId

\* C13: an image submission into an active conversation appends the user
\* message with the prompt, then a placeholder with "Generating image...";
\* after success the placeholder has empty content, an imageUrl and no error
\* flag; after failure it has isError, the error message as content and no
\* imageUrl.
C13_ImageMode ==
    \A n \in DOMAIN flows :
        (flows[n].mode = "image" /\ ~flows[n].isNew /\ Exists(n)) =>
            /\ flows[n].atCall = <<flows[n].userId, flows[n].messageId>>
            /\ \E msg \in Find(conversations, flows[n].userId) :
                  msg.role = "user" /\ msg.content = Prompt
            /\ \E msg \in Find(conversations, flows[n].messageId) :
                  /\ msg.role = "model"
                  /\ flows[n].pc = "run" =>
                        /\ msg.content = <<"Generating image...">>
                        /\ msg.imageUrl = NoUrl
                        /\ ~msg.isError
                  /\ flows[n].pc = "done" =>
                        /\ msg.content = <<>>
                        /\ msg.imageUrl # NoUrl
                        /\ ~msg.isError
                  /\ flows[n].pc = "failed" =>
                        /\ msg.content = ErrorMessage("image", flows[n].rejection)
                        /\ msg.imageUrl = NoUrl
                        /\ msg.isError

\* An image submission into an existing conversation has succeeded.
C13_Witness ==
    \E n \in DOMAIN flows :
        /\ flows[n].mode = "image"
        /\ ~flows[n].isNew
        /\ flows[n].pc = "done"
        /\ \E msg \in Find(conversations, flows[n].messageId) : msg.imageUrl # NoUrl

\* C14: a pin toggle changes the isPinned of the conversation with that id and
\* nothing else, a second toggle of the same id gives back the store as it
\* was, and toggling an id that is not in the store changes nothing.
C14_TogglePinTwice ==
    [][\A id \in ConvIds(conversations) :
          handleTogglePin(id) =>
              /\ \A i \in DOMAIN conversations :
                    conversations'[i] =
                        IF conversations[i].id = id
                        THEN [conversations[i] EXCEPT !.isPinned = ~conversations[i].isPinned]
                        ELSE conversations[i]
              /\ TogglePin(conversations', id) = conversations
              /\ TogglePin(conversations', AbsentId) = conversations'
              /\ UNCHANGED <<activeConversationId, isLoading, flows>>]_vars

\* A toggle has pinned one conversation of a store that holds another one.
C14_Witness ==
    \E i \in DOMAIN conversations : \E j \in DOMAIN conversations :
        /\ i # j
        /\ conversations[i].isPinned
        /\ ~conversations[j].isPinned
        /\ clicks > 0

\* C15: when App has started, it runs; a 'conversations' key that was absent
\* or held anything but the JSON of a conversation list leaves the list
\* empty and the key absent; a 'userPreferences' key that was absent or held
\* anything but the JSON of a preferences object leaves the default
\* preferences and the key absent.
C15_CorruptTreatedAsAbsent ==
    [][(app = "mounting" /\ app' # "mounting") =>
          /\ app' = "running"
          /\ storage["conversations"].kind # "json" =>
                /\ conversations' = <<>>
                /\ storage'["conversations"] = Absent("conversations")
          /\ storage["userPreferences"].kind # "json" =>
                /\ preferences' = DefaultPreferences
                /\ storage'["userPreferences"] = Absent("userPreferences")]_vars

\* C16: through the two screens, no submission starts a flow while another
\* flow is in flight: at most one flow is in flight in every reachable state.
C16_NoOverlappingSubmissions ==
    Cardinality({n \in DOMAIN flows : flows[n].pc = "run"}) <= 1

\* C17: while a flow is in flight, in every mode, every step leaves the
\* content its placeholder had as a prefix of the content it has after the
\* step.
C17_ContentAppendOnlyInFlight ==
    [][\A n \in DOMAIN flows :
          (flows[n].pc = "run" /\ flows'[n].pc = "run") =>
              \A old \in Find(conversations, flows[n].messageId) :
                  \A new \in Find(conversations', flows[n].messageId) :
                      IsPrefix(old.content, new.content)]_vars

\* What the sidebar operations and the title call set: the ids of the store
\* in their order, with each conversation's title and pin.
Headers(convs) ==
    [i \in DOMAIN convs |->
        [id |-> convs[i].id, title |-> convs[i].title, isPinned |-> convs[i].isPinned]]

\* C18: a fragment, progress, completion or error update of a flow leaves
\* every conversation's isPinned and title as a concurrent pin toggle or
\* title update set them, removes no conversation and brings no deleted
\* conversation back.
C18_FlowKeepsPinTitleDelete ==
    [][\A n \in DOMAIN flows :
          FlowStep(n) => Headers(conversations') = Headers(conversations)]_vars

\* The first flow's conversation was deleted while the flow was in flight,
\* and the flow completed after that: the deletion cleared the active id, so
\* the second submission created its conversation after it, and the flag is
\* down while the second flow is in flight, so the first ended after the
\* second was dispatched.  The second flow's conversation was pinned and
\* renamed by its title call while the flow is in flight, and holds a
\* fragment of the flow.
C18_Witness ==
    /\ Len(flows) = 2
    /\ ~Exists(1)
    /\ flows[1].pc = "done"
    /\ flows[2].isNew
    /\ Running(2)
    /\ ~isLoading
    /\ flows[2].title = "resolved"
    /\ \E i \in DOMAIN conversations :
          /\ conversations[i].id = flows[2].convId
          /\ conversations[i].isPinned
          /\ conversations[i].title = ResolvedTitle(flows[2].mode, GatewayTitle)
    /\ \E msg \in Find(conversations, flows[2].messageId) : msg.content # <<>>

\* C19: the active id is null or the id of a conversation of the store.
C19_ActiveIsNoneOrInStore ==
    activeConversationId = NoId \/ activeConversationId \in ConvIds(conversations)

\* The one sidebar action deleted the active conversation while its flow is
\* in flight, and no conversation is active.
C19_Witness ==
    /\ activeConversationId = NoId
    /\ clicks = 1
    /\ \E n \in DOMAIN flows : ~Exists(n) /\ Running(n) /\ flows[n].isNew

\* C20: a handler prop of the chat window is never called with an empty
\* prompt, unless it is onSend and it is called with an image; that is,
\* handleSubmit dispatches only where isSubmitDisabled is false.
C20_NoEmptyDispatch ==
    chatWindow.call # NoCall =>
        \/ chatWindow.call.prompt # <<>>
        \/ chatWindow.call.handler = "onSend" /\ chatWindow.call.image # NoImage

\* C21: once a change of the list has been processed, the 'conversations'
\* key holds the serialization of the whole current list, and it is absent
\* exactly when the list is empty.
C21_StoredIsWholeList ==
    /\ conversations # <<>> => storage["conversations"] = Stringify(conversations)
    /\ conversations = <<>> <=> storage["conversations"].kind = "absent"

\* The store held two conversations, one was deleted, and the one left was
\* pinned, renamed by its title call and holds a fragment of a flow; the
\* key holds that list.
C21_Witness ==
    /\ Len(flows) = 2
    /\ Len(conversations) = 1
    /\ conversations[1].isPinned
    /\ \E n \in DOMAIN flows :
          /\ flows[n].convId = conversations[1].id
          /\ flows[n].title = "resolved"
          /\ flows[n].fragments > 0
          /\ \E msg \in Find(conversations, flows[n].messageId) : msg.content # <<>>
    /\ \E n \in DOMAIN flows : ~Exists(n)
    /\ storage["conversations"].kind = "json"
    /\ storage["conversations"].value = conversations

\* The k-th invocation of an integration handler fails in this step: its
\* awaited call rejects, or it is an export that throws.
FailsNow(k) ==
    /\ k \in DOMAIN calls'
    /\ calls'[k].pc = "rejected"
    /\ k \in DOMAIN calls => calls[k].pc = "awaiting"

\* C22: a step of an upload, create-document, export, sign-in or sign-out
\* handler, at its invocation or when its awaited call ends, leaves the
\* conversation list, every message and the active id as they are; a step in
\* which the handler fails leaves the sign-in status too, and the
\* notification it adds last is an error notification.
C22_IntegrationsLeaveStore ==
    [][/\ calls' # calls => UNCHANGED <<conversations, activeConversationId>>
       /\ \A k \in DOMAIN calls' :
             FailsNow(k) =>
                /\ UNCHANGED <<conversations, activeConversationId, isGoogleSignedIn>>
                /\ IsPrefix(notifications, notifications')
                /\ Len(notifications') > Len(notifications)
                /\ notifications'[Len(notifications')].type = "error"]_vars

\* An upload of a conversation failed and a create-document call succeeded,
\* a conversation is active, and a conversation has been deleted since App
\* was loaded with two.
C22_Witness ==
    /\ \E k \in DOMAIN calls : calls[k].op = "upload" /\ calls[k].pc = "rejected"
    /\ \E k \in DOMAIN calls : calls[k].op = "createDoc" /\ calls[k].pc = "resolved"
    /\ activeConversationId # NoId
    /\ Len(conversations) = 1
    /\ conversations[1].id = StoredConversation(2).id
    /\ Len(notifications) = 4

\* C24: the step in which a timer of addNotification fires removes the
\* notification that timer was set for, which is the oldest of the list,
\* and no other; until then the list keeps every notification in insertion
\* order.
C24_TimerRemovesOwnNotification ==
    [][Len(timers') < Len(timers) =>
          /\ notifications # <<>>
          /\ notifications' = Tail(notifications)]_vars

\* C23: once speech recognition has reported 'not-allowed', no step starts
\* recognition, and after every step the permission-denied flag of the
\* component that is shown is true.
C23_DeniedLatches ==
    [][speech.notAllowed =>
          /\ speech'.mounted.isSpeechPermissionDenied
          /\ ~(~speech.mounted.isListening /\ speech'.mounted.isListening)]_vars

\* C25: the sidebar lists the conversations that match the search, every
\* pinned one before every unpinned one, and each of the two groups in the
\* order the store holds them; with an empty search it lists every
\* conversation of the store exactly once.
C25_PinnedFirstInStoreOrder ==
    LET Test(conv) == Matches(conv, searchQuery)
        Pinned(conv) == conv.isPinned
        Unpinned(conv) == ~conv.isPinned
        matching == SelectSeq(conversations, Test)
    IN  /\ sortedAndFilteredConversations
              = SelectSeq(matching, Pinned) \o SelectSeq(matching, Unpinned)
        /\ searchQuery = <<>> =>
              /\ Len(sortedAndFilteredConversations) = Len(conversations)
              /\ ConvIds(sortedAndFilteredConversations) = ConvIds(conversations)

\* A search that three conversations match and one does not; the two
\* pinned ones are listed in store order before the unpinned one, which the
\* store holds between them.
C25_Witness ==
    /\ Len(conversations) = 4
    /\ conversations[1].isPinned /\ ~conversations[2].isPinned /\ conversations[4].isPinned
    /\ clicks > 0
    /\ searchQuery = <<"A", "B">>
    /\ sortedAndFilteredConversations = <<conversations[1], conversations[4], conversations[2]>>

\* C26: isLoading is true whenever a generation flow is in flight.
C26_LoadingWhileInFlight ==
    (\E n \in DOMAIN flows : Running(n)) => isLoading

\* The placeholder of the n-th flow is the last message of its conversation.
PlaceholderIsLast(n) ==
    \E i \in DOMAIN conversations :
        /\ conversations[i].id = flows[n].convId
        /\ conversations[i].messages[Len(conversations[i].messages)].id = flows[n].messageId

\* C27: a fragment of a streaming flow is appended to the flow's placeholder
\* when the placeholder is the last message of its conversation; when a
\* message has been appended after it, the fragment changes nothing.  The
\* error update of the flow reaches the placeholder in both cases.
C27_FragmentOnlyToLastMessage ==
    [][\A n \in DOMAIN flows :
          /\ (Exists(n) /\ flows'[n].fragments = flows[n].fragments + 1) =>
                IF PlaceholderIsLast(n)
                THEN \A old \in Find(conversations, flows[n].messageId) :
                        \E new \in Find(conversations', flows[n].messageId) :
                            new = [old EXCEPT !.content =
                                      Append(old.content, Chunk(n, flows'[n].fragments))]
                ELSE conversations' = conversations
          /\ (Exists(n) /\ flows[n].pc = "run" /\ flows'[n].pc = "failed") =>
                \A new \in Find(conversations', flows[n].messageId) : new.isError]_vars

\* The first flow's placeholder is followed by the messages of the second
\* submission; the gateway has yielded more fragments to the first flow,
\* which is still in flight, than its placeholder holds: one was dropped.
C27_Witness ==
    /\ Len(flows) = 2
    /\ flows[1].convId = flows[2].convId
    /\ Running(1)
    /\ flows[1].mode \in StreamModes
    /\ ~PlaceholderIsLast(1)
    /\ \E msg \in Find(conversations, flows[1].messageId) :
          /\ msg.content # <<>>
          /\ Len(msg.content) < flows[1].fragments

\* C28: the messages of every conversation are user, model, user, model, ...
\* and the placeholder of every submission follows the user message of that
\* submission immediately.
C28_MessagesAlternate ==
    /\ \A i \in DOMAIN conversations :
          \A j \in DOMAIN conversations[i].messages :
              conversations[i].messages[j].role = IF j % 2 = 1 THEN "user" ELSE "model"
    /\ \A n \in DOMAIN flows :
          Exists(n) =>
              LET ids == MessageIds(conversations, flows[n].convId)
              IN  \E j \in 1..(Len(ids) - 1) :
                      ids[j] = flows[n].userId /\ ids[j + 1] = flows[n].messageId

\* Two flows in flight in the same conversation, which holds the four
\* messages of the two submissions.
C28_Witness ==
    /\ Len(flows) = 2
    /\ flows[1].convId = flows[2].convId
    /\ Running(1)
    /\ Running(2)
    /\ MessageIds(conversations, flows[1].convId)
          = <<flows[1].userId, flows[1].messageId, flows[2].userId, flows[2].messageId>>

\* C29: every conversation in the store has at least one message, so the
\* last message read when a fragment is applied exists.
C29_NoEmptyConversation ==
    \A i \in DOMAIN conversations : Len(conversations[i].messages) >= 1

\* A flow that created its conversation has had a fragment applied to the
\* conversation's last message.
C29_Witness ==
    \E n \in DOMAIN flows :
        /\ flows[n].isNew
        /\ flows[n].mode \in StreamModes
        /\ flows[n].fragments >= 1
        /\ Exists(n)
        /\ \E c \in Conv(conversations, flows[n].convId) :
               /\ c.messages[Len(c.messages)].id = flows[n].messageId
               /\ c.messages[Len(c.messages)].content # <<>>

\* The callback of an initGoogleClient call is invoked at most once.
CallbackAtMostOnce ==
    \A k \in DOMAIN google.polling : google.polling[k].invoked <= 1

\* A step that invokes a callback is taken with both flags set and clears
\* the interval of that call.
CallbackAfterBothInited ==
    [][\A k \in DOMAIN google.polling :
          google'.polling[k].invoked > google.polling[k].invoked =>
              /\ google.gapiInited
              /\ google.gisInited
              /\ ~google'.polling[k].set]_vars

\* The callback of every initGoogleClient call is eventually invoked.
CallbackEventually ==
    \A k \in 1..MaxInits :
        (k \in DOMAIN google.polling) ~> (k \in DOMAIN google.polling
                                          /\ google.polling[k].invoked >= 1)

\* C30: initGoogleClient invokes its callback at most once, only after
\* gapiInited and gisInited are both set, and clears its interval at that
\* point; and the callback is eventually invoked after initGoogleClient is
\* called.
C30_CallbackOnceAndEventually ==
    /\ []CallbackAtMostOnce
    /\ CallbackAfterBothInited
    /\ CallbackEventually

====
